---- MODULE Spec2Model ----
(***************************************************************************)
(* Model of the dataset-cleanser API: the JSON document store and its      *)
(* SQLite search mirror (dbmanager.py), the API key registry and usage log *)
(* (dbmanager.py), and the rate-limiting middleware (main.py).              *)
(*                                                                         *)
(* Texts (Python str, SQLite TEXT) are sequences of one-character strings; *)
(* the character U+00E9 is written "U+00E9".  Optional values are records  *)
(* [isNull, v]: NULL stands for Python None / SQL NULL.                    *)
(* The JSON document is held parsed: json.load(json.dump(d)) returns d for *)
(* lists of dicts whose values are str, int, None or lists of str.         *)
(***************************************************************************)
EXTENDS Naturals, Integers, Sequences, FiniteSets, TLC

VARIABLES
  file,       \* datasets.json: the sequence of records of the document
  damage,     \* datasets.json: "none", or what is wrong with the file's text
  mirror,     \* datasets table of datasets.db: the rows, in rowid order
  mirrorPre,  \* history: the mirror when the last sync at startup began
  pc,         \* per caller: where it is in upsert_item
  item,       \* per caller: the argument of upsert_item
  items,      \* per caller: what read_json returned in upsert_item
  syncItems,  \* per caller: what read_json returned in sync_json_to_sqlite
  pre,        \* history: the document when the caller's upsert_item was called
  pydantic,   \* the installed pydantic, "1.x" or "2.x": update runs on either
  qn,         \* query_latest / search_sqlite: the limit of the last call
  qres,       \* query_latest: the result of the last call
  outcome,    \* history: the last query_all / query_latest call and how it ended
  keys,       \* api_keys table: token -> row
  usage,      \* usage_logs table: the rows in id order
  issued,     \* history: the tokens create_api_key has returned
  revoked,    \* history: the issued tokens deactivate_api_key was called on
  lastKeyOp,  \* history: the last key registry call and what it returned
  now,        \* the clock, in seconds
  store,      \* app.state._rate_store: client id -> list of timestamps
  allowed,    \* history: client id -> the times its checks said not limited
  lastCheck,  \* history: the last rate check and what it returned
  redis,      \* the shared counter backend: key -> [count, expires]
  window,     \* history: client id -> the fixed window its last call fell in
  failOpen,   \* history: client id -> how many of the times in allowed are of
              \* checks that said not limited because the round trip raised
  req,        \* per request: the request and the middleware's position in it
  logTask,    \* per request: the state of its log_usage_async task
  arrived     \* how many requests the server has accepted

storeVars ==
  <<file, damage, mirror, mirrorPre, pc, item, items, syncItems, pre, pydantic>>
queryVars == <<qn, qres, outcome>>
keyVars   == <<keys, usage, issued, revoked, lastKeyOp>>
rateVars  == <<now, store, allowed, lastCheck, redis, window, failOpen>>
httpVars  == <<req, logTask, arrived>>
vars == <<file, damage, mirror, mirrorPre, pc, item, items, syncItems, pre, pydantic,
          qn, qres, outcome, keys, usage, issued, revoked, lastKeyOp,
          now, store, allowed, lastCheck, redis, window, failOpen, req, logTask,
          arrived>>

\* what the operations of one part leave alone
StoreOnly == UNCHANGED <<queryVars, keyVars, rateVars, httpVars>>
KeysOnly ==
  UNCHANGED <<storeVars, queryVars, store, allowed, lastCheck, redis, window, failOpen,
              httpVars>>

(***************************************************************************)
(* Optional values and texts                                               *)
(***************************************************************************)
NULL == [isNull |-> TRUE, v |-> <<>>]
Some(x) == [isNull |-> FALSE, v |-> x]

Min(a, b) == IF a <= b THEN a ELSE b

\* k occurs in t as a contiguous run of characters
Contains(t, k) ==
  \E i \in 0..(Len(t) - Len(k)) : SubSeq(t, i + 1, i + Len(k)) = k

\* SQLite folds the case of ASCII letters in LIKE
Fold(c) == IF c = "A" THEN "a" ELSE IF c = "B" THEN "b" ELSE c

\* SQLite's LIKE without ESCAPE: % is any run of characters, _ any one
\* character, every other character matches itself up to ASCII case
RECURSIVE LikeMatch(_, _)
LikeMatch(p, t) ==
  IF p = <<>> THEN t = <<>>
  ELSE IF Head(p) = "%"
       THEN LikeMatch(Tail(p), t) \/ (t # <<>> /\ LikeMatch(p, Tail(t)))
       ELSE /\ t # <<>>
            /\ (Head(p) = "_" \/ Fold(Head(p)) = Fold(Head(t)))
            /\ LikeMatch(Tail(p), Tail(t))

\* column LIKE pattern on an optional TEXT column: NULL LIKE p is not true
Like(col, p) == ~col.isNull /\ LikeMatch(p, col.v)

(***************************************************************************)
(* json.dumps / json.loads of a list of str (ensure_ascii=True)            *)
(***************************************************************************)
EscapeChar(c) ==
  IF c = "\"" THEN <<"\\", "\"">>
  ELSE IF c = "\\" THEN <<"\\", "\\">>
  ELSE IF c = "U+00E9" THEN <<"\\", "u", "0", "0", "e", "9">>
  ELSE <<c>>

RECURSIVE EscapeText(_)
EscapeText(s) ==
  IF s = <<>> THEN <<>> ELSE EscapeChar(Head(s)) \o EscapeText(Tail(s))

DumpsStr(s) == <<"\"">> \o EscapeText(s) \o <<"\"">>

RECURSIVE DumpsElems(_)
DumpsElems(l) ==
  IF l = <<>> THEN <<>>
  ELSE IF Len(l) = 1 THEN DumpsStr(l[1])
  ELSE DumpsStr(l[1]) \o <<",", " ">> \o DumpsElems(Tail(l))

JsonDumps(l) == <<"[">> \o DumpsElems(l) \o <<"]">>

\* the character a \uXXXX escape stands for
UnicodeChar(h) == IF h = <<"0", "0", "e", "9">> THEN "U+00E9" ELSE "U+FFFD"

\* scans a JSON string from position i, just after its opening quote
RECURSIVE ParseStr(_, _, _)
ParseStr(t, i, acc) ==
  IF i > Len(t) THEN [v |-> acc, next |-> i]
  ELSE IF t[i] = "\"" THEN [v |-> acc, next |-> i + 1]
  ELSE IF t[i] = "\\"
       THEN IF t[i + 1] = "u"
            THEN ParseStr(t, i + 6, Append(acc, UnicodeChar(SubSeq(t, i + 2, i + 5))))
            ELSE ParseStr(t, i + 2, Append(acc, t[i + 1]))
       ELSE ParseStr(t, i + 1, Append(acc, t[i]))

\* scans the elements of a JSON array from position i, after "[" or ","
RECURSIVE ParseElems(_, _, _)
ParseElems(t, i, acc) ==
  IF i > Len(t) THEN acc
  ELSE IF t[i] = "]" THEN acc
  ELSE IF t[i] = " " \/ t[i] = "," THEN ParseElems(t, i + 1, acc)
  ELSE LET s == ParseStr(t, i + 1, <<>>)
       IN  ParseElems(t, s.next, Append(acc, s.v))

JsonLoads(t) == ParseElems(t, 2, <<>>)

(***************************************************************************)
(* Records (models.py DatasetMeta / UpdatePayload)                         *)
(***************************************************************************)
Ids == {"d1", "d2", "d3"}

MkRec(id, name, updated, rows, columns, description, tags) ==
  [id |-> id, name |-> name, url |-> "https://x.test/f.csv",
   updated |-> updated, rows |-> rows, columns |-> columns,
   description |-> description, tags |-> tags]

NoRows == [isNull |-> TRUE, v |-> 0]

\* the record contents the callers send
Variant(id, n) ==
  CASE n = 1 -> MkRec(id, <<"a", "b">>, Some(<<"1">>), NoRows, NULL, NULL, Some(<<>>))
    [] n = 2 -> MkRec(id, <<"A">>, NULL, Some(1), Some(<<>>), Some(<<"c">>),
                      Some(<< <<"a">>, <<"b">> >>))
    [] n = 3 -> MkRec(id, <<"b">>, Some(<<"2">>), NoRows, Some(<< <<"x">>, <<"a">> >>),
                      NULL, Some(<< <<"c", "U+00E9">> >>))
    [] OTHER -> MkRec(id, <<"c">>, Some(<<>>), Some(1), Some(<< <<"\"">>, <<"\\", "b">> >>),
                      Some(<<"%">>), NULL)

NumVariants == 4
Records == {Variant(id, n) : id \in Ids, n \in 1..NumVariants}

HasId(doc, id) == \E i \in DOMAIN doc : doc[i].id = id
InDoc(doc, r) == \E i \in DOMAIN doc : doc[i] = r
NoDuplicateIds(doc) ==
  \A i, j \in DOMAIN doc : doc[i].id = doc[j].id => i = j

(***************************************************************************)
(* dbmanager.py: the document store and the search mirror                  *)
(***************************************************************************)
\* query_all: the document as read_json returns it
QueryAll == file

\* what can be wrong with datasets.json when a call finds it: its text is
\* cut short or is not JSON at all, the file cannot be opened, or its text
\* is the well-formed JSON {} or null and not a list of records
DamageKinds == {"truncated", "unreadable", "object", "null"}

\* read_json: open raises OSError when the file cannot be opened, json.load
\* raises JSONDecodeError on a text that is not one JSON value, and returns
\* whatever value a well-formed text holds ({} as an empty dict, null as
\* None).  While calls overlap write_json leaves two more texts that are
\* not one JSON value: "empty" after open(DB_JSON, "w") has truncated the
\* file and before the text is written, and "overwritten" when a shorter
\* text has been written over the start of a longer one, whose end is
\* still there (file then holds the longer document, the one that gives
\* the file its length).  "cut" is the text json.dump leaves when it
\* raises part-way: it ends inside a record and no record of it can be read
ReadJsonResult ==
  [raised |-> damage \in {"truncated", "unreadable", "empty", "overwritten", "cut"},
   shape |-> CASE damage = "object" -> "dict" [] damage = "null" -> "None"
               [] OTHER -> "list",
   records |-> IF damage = "none" THEN file ELSE <<>>]

\* upsert_item lines 116-124 raise before write_json: read_json raises, or
\* enumerate(None) raises TypeError, or {}.append raises AttributeError
UpsertRaisesBeforeWrite == ReadJsonResult.raised \/ ReadJsonResult.shape # "list"

\* query_latest lines 134-135 raise: read_json raises, or sorted(None) raises
\* TypeError; sorted({}) is the empty list
QueryLatestRaises == ReadJsonResult.raised \/ ReadJsonResult.shape = "None"

\* upsert_item, lines 117-124: replace the first record with the id, or append
UpsertItems(doc, r) ==
  IF HasId(doc, r.id)
  THEN LET i == CHOOSE k \in DOMAIN doc :
                  doc[k].id = r.id /\ \A m \in 1..(k - 1) : doc[m].id # r.id
       IN  [doc EXCEPT ![i] = r]
  ELSE Append(doc, r)

(***************************************************************************)
(* The length of the text json.dump(data, f, indent=2) writes              *)
(***************************************************************************)
\* the number of decimal digits of n
RECURSIVE DecLen(_)
DecLen(n) == IF n < 10 THEN 1 ELSE 1 + DecLen(n \div 10)

\* a str value: its escaped characters between two quotes
StrLen(s) == Len(EscapeText(s)) + 2

\* an Optional[str] value: null has four characters
OptStrLen(f) == IF f.isNull THEN 4 ELSE StrLen(f.v)

RECURSIVE SumStrLen(_)
SumStrLen(l) == IF l = <<>> THEN 0 ELSE StrLen(Head(l)) + SumStrLen(Tail(l))

\* an Optional[List[str]] value of a record: [] on one line; otherwise "[",
\* each element on a line of its own behind six spaces, the lines joined by
\* a comma and a newline, and "]" on a line behind four spaces
OptListLen(f) ==
  IF f.isNull THEN 4
  ELSE IF f.v = <<>> THEN 2
  ELSE 2 + SumStrLen(f.v) + 6 * Len(f.v) + 2 * (Len(f.v) - 1) + 6

\* a record of the list: two spaces and "{", the eight members each on a
\* line behind four spaces as "key": value (the keys have 42 characters in
\* all), joined by a comma and a newline, and "}" on a line behind two
\* spaces; an id has two characters and the url twenty
RecLen(r) ==
  128 + 4 + StrLen(r.name) + 22 + OptStrLen(r.updated)
      + (IF r.rows.isNull THEN 4 ELSE DecLen(r.rows.v))
      + OptListLen(r.columns) + OptStrLen(r.description) + OptListLen(r.tags)

RECURSIVE SumRecLen(_)
SumRecLen(doc) == IF doc = <<>> THEN 0 ELSE RecLen(Head(doc)) + SumRecLen(Tail(doc))

\* the document: [] for the empty list; otherwise "[", the records joined
\* by a comma and a newline, and "]" on a line of its own
DocLen(doc) ==
  IF doc = <<>> THEN 2 ELSE 4 + SumRecLen(doc) + 2 * (Len(doc) - 1)

\* write_json line 30 and the end of its with block: the text of doc goes
\* to the file from position 0 of a handle opened before; what the file
\* held beyond the end of that text stays (an empty file has no text)
FileAfterDump(doc) ==
  IF damage = "empty" \/ DocLen(doc) >= DocLen(file)
  THEN [file |-> doc, damage |-> "none"]
  ELSE [file |-> file, damage |-> "overwritten"]

\* a faulty serialisation that tests the list's truth value, not "is not None"
DumpsFieldTruthy(f) ==
  IF ~f.isNull /\ f.v # <<>> THEN Some(JsonDumps(f.v)) ELSE NULL

\* the parameters of the INSERT of sync_json_to_sqlite
DumpsField(f) == IF ~f.isNull THEN Some(JsonDumps(f.v)) ELSE NULL

ToRow(r) ==
  [id |-> r.id, name |-> Some(r.name), url |-> r.url, updated |-> r.updated,
   rows |-> r.rows, columns |-> DumpsField(r.columns),
   description |-> r.description, tags |-> DumpsField(r.tags)]

\* INSERT ... ON CONFLICT(id) DO UPDATE: the row keeps its rowid
UpsertRow(tbl, row) ==
  IF \E i \in DOMAIN tbl : tbl[i].id = row.id
  THEN LET i == CHOOSE k \in DOMAIN tbl : tbl[k].id = row.id
       IN  [tbl EXCEPT ![i] = row]
  ELSE Append(tbl, row)

\* a faulty sync that empties the table and fills it from the document
SyncRowsRebuild(tbl, doc) == [i \in DOMAIN doc |-> ToRow(doc[i])]

\* the loop of sync_json_to_sqlite over the document it read
RECURSIVE SyncRows(_, _)
SyncRows(tbl, doc) ==
  IF doc = <<>> THEN tbl
  ELSE SyncRows(UpsertRow(tbl, ToRow(Head(doc))), Tail(doc))

\* search_sqlite, lines 152-153: a NULL or empty column reads as None
LoadsField(c) == IF ~c.isNull /\ c.v # <<>> THEN Some(JsonLoads(c.v)) ELSE NULL

FromRow(row) ==
  [id |-> row.id, name |-> row.name.v, url |-> row.url, updated |-> row.updated,
   rows |-> row.rows, columns |-> LoadsField(row.columns),
   description |-> row.description, tags |-> LoadsField(row.tags)]

RowMatches(row, pattern) ==
  \/ Like(row.name, pattern)
  \/ Like(row.description, pattern)
  \/ Like(row.tags, pattern)

RECURSIVE SelectRows(_, _, _)
SelectRows(tbl, pattern, limit) ==
  IF tbl = <<>> \/ limit = 0 THEN <<>>
  ELSE IF RowMatches(Head(tbl), pattern)
       THEN <<Head(tbl)>> \o SelectRows(Tail(tbl), pattern, limit - 1)
       ELSE SelectRows(Tail(tbl), pattern, limit)

SearchSqlite(tbl, keyword, limit) ==
  LET rows == SelectRows(tbl, <<"%">> \o keyword \o <<"%">>, limit)
  IN  [i \in DOMAIN rows |-> FromRow(rows[i])]

\* the keywords searched for: every text of at most MaxKwLen characters
MaxKwLen == 2
KwChars == {"a", "b", "U+00E9", "%"}
Keywords == UNION {[1..k -> KwChars] : k \in 0..MaxKwLen}

(***************************************************************************)
(* query_latest                                                            *)
(***************************************************************************)
\* the code point of a character of an updated value
CharRank(c) ==
  CASE c = "0" -> 48 [] c = "1" -> 49 [] c = "2" -> 50 [] OTHER -> 97

\* Python's < on str: by code point, a proper prefix first
RECURSIVE LexLess(_, _)
LexLess(a, b) ==
  IF b = <<>> THEN FALSE
  ELSE IF a = <<>> THEN TRUE
  ELSE IF CharRank(Head(a)) < CharRank(Head(b)) THEN TRUE
  ELSE IF CharRank(Head(a)) > CharRank(Head(b)) THEN FALSE
  ELSE LexLess(Tail(a), Tail(b))

\* key=lambda x: x.get("updated") or ""
SortKey(r) == IF r.updated.isNull THEN <<>> ELSE r.updated.v

RECURSIVE Reverse(_)
Reverse(s) == IF s = <<>> THEN <<>> ELSE Append(Reverse(Tail(s)), Head(s))

\* x goes after every element whose key is not greater than its own
RECURSIVE InsertAsc(_, _)
InsertAsc(sorted, x) ==
  IF sorted = <<>> THEN <<x>>
  ELSE IF LexLess(SortKey(x), SortKey(Head(sorted)))
       THEN <<x>> \o sorted
       ELSE <<Head(sorted)>> \o InsertAsc(Tail(sorted), x)

\* a stable ascending sort by SortKey
RECURSIVE SortAsc(_)
SortAsc(s) ==
  IF s = <<>> THEN <<>> ELSE InsertAsc(SortAsc(SubSeq(s, 1, Len(s) - 1)), s[Len(s)])

\* a faulty descending sort: the ascending sort read backwards
SortedByUpdatedBackwards(doc) == Reverse(SortAsc(doc))

\* sorted(items, key=..., reverse=True): the list is reversed, sorted
\* ascending and stably, and reversed again
SortedByUpdated(doc) == Reverse(SortAsc(Reverse(doc)))

\* s[:n]
Slice(s, n) ==
  IF n >= 0 THEN SubSeq(s, 1, Min(n, Len(s)))
  ELSE SubSeq(s, 1, IF Len(s) + n > 0 THEN Len(s) + n ELSE 0)

QueryLatest(doc, limit) == Slice(SortedByUpdated(doc), limit)

Procs == {"p1", "p2"}

\* the text of time.strftime("%Y-%m-%dT%H:%M:%SZ", time.gmtime()) when the
\* clock stands n seconds after the epoch, n < 10
TimeText(n) ==
  <<"1", "9", "7", "0", "-", "0", "1", "-", "0", "1", "T", "0", "0", ":", "0", "0", ":",
    "0", <<"0", "1", "2", "3", "4", "5", "6", "7", "8", "9">>[(n % 10) + 1], "Z">>

\* update lines 237-238: an updated that is None or "" is set to the
\* current time
FillUpdated(r) ==
  IF r.updated.isNull \/ r.updated.v = <<>>
  THEN [r EXCEPT !.updated = Some(TimeText(now))]
  ELSE r

\* update line 239: payload.model_dump() where the model has one (pydantic
\* 2.x), whose url is the HttpUrl object of the validated field, else
\* payload.dict() (pydantic 1.x), whose url is a str equal to the text sent
ModelDump(payload) ==
  IF pydantic = "2.x"
  THEN [payload EXCEPT !.url = "HttpUrl('https://x.test/f.csv')"]
  ELSE payload

\* json.dump can write the list: every value is a str, an int, None or a
\* list of str; an HttpUrl object is none of these
JsonSerializable(doc) ==
  \A i \in 1..Len(doc) : doc[i].url # "HttpUrl('https://x.test/f.csv')"

\* update lines 237-240 in the worker thread p: the payload with its
\* updated filled in is dumped to a dict and upsert_item is entered with it
Update(p, payload) ==
  /\ pc[p] = "idle"
  /\ pc' = [pc EXCEPT ![p] = "read"]
  /\ item' = [item EXCEPT ![p] = ModelDump(FillUpdated(payload))]
  /\ pre' = [pre EXCEPT ![p] = file]
  /\ UNCHANGED <<pydantic, file, damage, mirror, mirrorPre, items, syncItems>>

\* a caller sends the payload r to update
Call(p, r) ==
  /\ Update(p, r)
  /\ StoreOnly

\* upsert_item line 116: items = read_json(); when this or the loop over
\* items raises, upsert_item is left with nothing written
ReadJson(p) ==
  /\ pc[p] = "read"
  /\ IF UpsertRaisesBeforeWrite
     THEN /\ pc' = [pc EXCEPT ![p] = "raised"]
          /\ UNCHANGED items
     ELSE /\ items' = [items EXCEPT ![p] = ReadJsonResult.records]
          /\ pc' = [pc EXCEPT ![p] = "write"]
  /\ UNCHANGED <<pydantic, file, damage, mirror, mirrorPre, item, syncItems, pre>>
  /\ StoreOnly

\* upsert_item lines 117-125 and write_json line 29: the local
\* replace-or-append, then open(DB_JSON, "w") leaves the file empty
WriteJsonOpen(p) ==
  /\ pc[p] = "write"
  /\ items' = [items EXCEPT ![p] = UpsertItems(items[p], item[p])]
  /\ file' = <<>> /\ damage' = "empty"
  /\ pc' = [pc EXCEPT ![p] = "dump"]
  /\ UNCHANGED <<pydantic, mirror, mirrorPre, item, syncItems, pre>>
  /\ StoreOnly

\* write_json line 30: json.dump fills the handle's buffer and the end of
\* the with block writes it to the file (a document of this size in one
\* write).  On a value it cannot write json.dump raises TypeError: the text
\* before that value is in the buffer and is written all the same, so the
\* file ends inside a record, after "url": , whatever it held; write_json,
\* upsert_item and update raise and the mirror is not synced
WriteJsonDump(p) ==
  /\ pc[p] = "dump"
  /\ IF JsonSerializable(items[p])
     THEN /\ file' = FileAfterDump(items[p]).file
          /\ damage' = FileAfterDump(items[p]).damage
          /\ pc' = [pc EXCEPT ![p] = "syncread"]
     ELSE /\ file' = <<>>
          /\ damage' = "cut"
          /\ pc' = [pc EXCEPT ![p] = "raised"]
  /\ UNCHANGED <<pydantic, mirror, mirrorPre, item, items, syncItems, pre>>
  /\ StoreOnly

\* sync_json_to_sqlite line 80: items = read_json(); the loop over items
\* raises on None and does nothing on {}
SyncRead(p) ==
  /\ pc[p] = "syncread"
  /\ IF ReadJsonResult.raised \/ ReadJsonResult.shape = "None"
     THEN /\ pc' = [pc EXCEPT ![p] = "raised"]
          /\ UNCHANGED syncItems
     ELSE /\ syncItems' = [syncItems EXCEPT ![p] = ReadJsonResult.records]
          /\ pc' = [pc EXCEPT ![p] = "synccommit"]
  /\ UNCHANGED <<pydantic, file, damage, mirror, mirrorPre, item, items, pre>>
  /\ StoreOnly

\* sync_json_to_sqlite lines 81-109: the inserts, committed as one transaction;
\* upsert_item then returns
SyncCommit(p) ==
  /\ pc[p] = "synccommit"
  /\ mirror' = SyncRows(mirror, syncItems[p])
  /\ pc' = [pc EXCEPT ![p] = "done"]
  /\ UNCHANGED <<pydantic, file, damage, mirrorPre, item, items, syncItems, pre>>
  /\ StoreOnly

\* the caller has its answer and may call again; the locals of the call are gone
Return(p) ==
  /\ pc[p] = "done"
  /\ pc' = [pc EXCEPT ![p] = "idle"]
  /\ item' = [item EXCEPT ![p] = Variant("d1", 1)]
  /\ items' = [items EXCEPT ![p] = <<>>]
  /\ syncItems' = [syncItems EXCEPT ![p] = <<>>]
  /\ pre' = [pre EXCEPT ![p] = <<>>]
  /\ UNCHANGED <<pydantic, file, damage, mirror, mirrorPre>>
  /\ StoreOnly

(***************************************************************************)
(* dbmanager.py: the API key registry and the usage log                    *)
(***************************************************************************)
\* the tokens secrets.token_urlsafe returns, and the tokens callers present
Tokens == {"k1", "k2"}
NoToken == "<None>"
PresentedKeys == Tokens \cup {"", NoToken}
Labels == {"", "x", NoToken}
Quotas == {NoRows, Some(5)}
Endpoints == {"/update", "/search"}

\* no row of api_keys has the token
NoKey == [present |-> FALSE, label |-> "", created_at |-> 0, active |-> 0,
          quota |-> NoRows]

\* create_api_key line 174: secrets.token_urlsafe(32) draws 256 random
\* bits, a token that no row of api_keys holds yet
FreshToken(k) == ~keys[k].present

\* create_api_key lines 178-181: INSERT INTO api_keys (label or "", now, 1, quota)
KeysAfterCreate(k, label, quota) ==
  [keys EXCEPT ![k] = [present |-> TRUE,
                       label |-> IF label = NoToken \/ label = "" THEN "" ELSE label,
                       created_at |-> now, active |-> 1, quota |-> quota]]

\* a faulty validation that only looks for the row and not at its active column
ValidateApiKeyAnyRow(key) ==
  IF key = NoToken \/ key = "" THEN FALSE
  ELSE key \in DOMAIN keys /\ keys[key].present

\* validate_api_key: not key -> False; else the row exists and active = 1
ValidateApiKey(key) ==
  IF key = NoToken \/ key = "" THEN FALSE
  ELSE key \in DOMAIN keys /\ keys[key].present /\ keys[key].active = 1

\* a faulty UPDATE without its WHERE clause: every row is deactivated
KeysAfterDeactivateAll(key) ==
  [k \in DOMAIN keys |-> IF keys[k].present THEN [keys[k] EXCEPT !.active = 0] ELSE keys[k]]

\* deactivate_api_key: UPDATE api_keys SET active = 0 WHERE key = ?
KeysAfterDeactivate(key) ==
  [k \in DOMAIN keys |->
     IF k = key /\ keys[k].present THEN [keys[k] EXCEPT !.active = 0] ELSE keys[k]]

\* dbmanager.py imports os, json, sqlite3, datetime, secrets, asyncio and
\* typing: the name time that log_usage reads at line 214 is not bound
TimeIsBound == FALSE

\* log_usage: the INSERT is reached only if int(time.time()) does not raise;
\* every Exception is swallowed
UsageAfterLog(api_key, endpoint) ==
  IF TimeIsBound
  THEN Append(usage, [api_key |-> api_key, endpoint |-> endpoint, ts |-> now])
  ELSE usage

\* create_api_key(label, quota) returns the token k
CreateApiKey(k, label, quota) ==
  /\ FreshToken(k)
  /\ keys' = KeysAfterCreate(k, label, quota)
  /\ issued' = issued \cup {k}
  /\ lastKeyOp' = [op |-> "create", key |-> k, ok |-> TRUE]
  /\ UNCHANGED <<usage, revoked, now>>
  /\ KeysOnly

ValidateKey(key) ==
  /\ lastKeyOp' = [op |-> "validate", key |-> key, ok |-> ValidateApiKey(key)]
  /\ UNCHANGED <<keys, usage, issued, revoked, now>>
  /\ KeysOnly

DeactivateApiKey(key) ==
  /\ keys' = KeysAfterDeactivate(key)
  /\ revoked' = IF key \in issued THEN revoked \cup {key} ELSE revoked
  /\ lastKeyOp' = [op |-> "deactivate", key |-> key, ok |-> TRUE]
  /\ UNCHANGED <<usage, issued, now>>
  /\ KeysOnly

LogUsage(api_key, endpoint) ==
  /\ usage' = UsageAfterLog(api_key, endpoint)
  /\ lastKeyOp' = [op |-> "log", key |-> api_key, ok |-> TRUE]
  /\ UNCHANGED <<keys, issued, revoked, now>>
  /\ KeysOnly

\* the clock of the key registry advances
MaxTime == 4
TickKeys ==
  /\ now < MaxTime
  /\ now' = now + 1
  /\ UNCHANGED <<keys, usage, issued, revoked, lastKeyOp>>
  /\ KeysOnly

(***************************************************************************)
(* main.py: the rate limiter                                               *)
(***************************************************************************)
\* RATE_LIMIT and RATE_WINDOW are read from the environment; the values
\* here are a threshold of 2 requests and a window of 2 seconds
RATE_LIMIT == 2
RATE_WINDOW == 2

\* the client ids of rate_limit_middleware: an X-API-Key header or a host
ClientIds == {"k1", "10.0.0.1"}

\* _mem_rate_check lines 125-126: pop from the front while hits[0] <= now - W
RECURSIVE Purge(_, _)
Purge(hits, t) ==
  IF hits # <<>> /\ hits[1] <= t - RATE_WINDOW THEN Purge(Tail(hits), t) ELSE hits

\* a faulty threshold test, off by one
MemLimitedAbove(hits) == Len(hits) > RATE_LIMIT

\* _mem_rate_check line 127: if len(hits) >= RATE_LIMIT: return True
MemLimited(hits) == Len(hits) >= RATE_LIMIT

\* _mem_rate_check: what it returns and the list it leaves in the store
MemRateCheck(hits, t) ==
  LET kept == Purge(hits, t)
  IN  IF MemLimited(kept)
      THEN [limited |-> TRUE, hits |-> kept]
      ELSE [limited |-> FALSE, hits |-> Append(kept, t)]

\* one call of _mem_rate_check(store, c) at the time now
RateCheck(c) ==
  LET r == MemRateCheck(store[c], now)
  IN  /\ store' = [store EXCEPT ![c] = r.hits]
      /\ allowed' = [allowed EXCEPT ![c] = IF r.limited THEN @ ELSE Append(@, now)]
      /\ lastCheck' = [client |-> c, at |-> now, limited |-> r.limited,
                       allowedBefore |-> allowed[c], hitsBefore |-> store[c]]
      /\ UNCHANGED <<now, redis, window, failOpen>>
      /\ UNCHANGED <<storeVars, queryVars, keyVars, httpVars>>

\* time.time() advances
TickRate ==
  /\ now < MaxTime
  /\ now' = now + 1
  /\ UNCHANGED <<store, allowed, lastCheck, redis, window, failOpen>>
  /\ UNCHANGED <<storeVars, queryVars, keyVars, httpVars>>

(***************************************************************************)
(* main.py: rate_limit_middleware, require_api_key and the handlers        *)
(***************************************************************************)
Reqs == {"r1", "r2"}
Host == "10.0.0.1"
HttpClients == {"k1", "k2", Host}

\* the body a request to update carries: the two connections send two datasets
PayloadOf(r) == IF r = "r1" THEN Variant("d1", 2) ELSE Variant("d2", 1)

\* the worker thread that runs the route of a request
ProcOf(r) == IF r = "r1" THEN "p1" ELSE "p2"

\* the requests sent: an exempt path, the public search, and update with a
\* valid header, a deactivated key in the header, a valid key in the query
\* string, and no key
Shape(path, header, query) == [path |-> path, header |-> header, query |-> query]
Shapes ==
  {Shape("/docs", NoToken, NoToken), Shape("/search", NoToken, NoToken),
   Shape("/update", "k1", NoToken), Shape("/update", "k2", NoToken),
   Shape("/update", NoToken, "k1"), Shape("/update", NoToken, NoToken)}

IdleReq == [pc |-> "idle", path |-> "/docs", header |-> NoToken, query |-> NoToken,
            limited |-> FALSE, redis |-> "none", seen |-> 0, response |-> 0]

\* line 136: paths that pass without rate limit
ExemptPath(path) == path = "/docs"

\* a or b
OrElse(a, b) == IF a # NoToken /\ a # "" THEN a ELSE b

\* lines 139-141: client_id = api_key or client_ip
ClientIdOf(r) == OrElse(req[r].header, Host)

\* the shared counter: a key whose expiry has passed is gone
RedisCount(c) == IF redis.expires[c] > now THEN redis.count[c] ELSE 0

\* the pipeline of _redis_rate_check on the server: INCR, then EXPIRE W
RedisAfterPipeline(c) ==
  [redis EXCEPT !.count[c] = RedisCount(c) + 1, !.expires[c] = now + RATE_WINDOW]

\* _redis_rate_check line 116: count > RATE_LIMIT
RedisLimited(count) == count > RATE_LIMIT

\* the history of the checks is kept in the specifications that start it
TracksChecks == DOMAIN allowed # {}

\* the history after a check of client c at the time now
AllowedAfter(c, limited) ==
  IF TracksChecks /\ ~limited THEN [allowed EXCEPT ![c] = Append(@, now)] ELSE allowed

\* a faulty limiter that adds one to the count it read when it sent the
\* pipeline, whatever other requests have done to the counter since
CountReadAtSend(r) == req[r].seen + 1

\* _redis_rate_check lines 112-115: count is the reply of INCR, the value
\* the server's own increment made
CountReplied(r) == RedisCount(ClientIdOf(r)) + 1

\* a limiter that fails closed
RedisFailureClosed == TRUE

\* _redis_rate_check lines 117-118: except Exception: return False
RedisFailureResult == FALSE

\* require_api_key: the header or else the api_key query parameter
RequireApiKey(r) == ValidateApiKey(OrElse(req[r].header, req[r].query))

\* the status of the response of call_next: 401 when require_api_key
\* raises, 500 when update raises out of upsert_item, 200 otherwise
HandlerResponse(r) ==
  IF req[r].path = "/update" /\ ~RequireApiKey(r) THEN 401
  ELSE IF req[r].path = "/update" /\ pc[ProcOf(r)] = "raised" THEN 500
  ELSE 200

\* a request arrives
Arrive(r, path, header, query) ==
  /\ req[r].pc = "idle"
  /\ arrived' = arrived + 1
  /\ req' = [req EXCEPT ![r] = [IdleReq EXCEPT !.pc = "mw", !.path = path,
                                                !.header = header, !.query = query]]
  /\ logTask' = [logTask EXCEPT ![r] = "none"]
  /\ UNCHANGED <<storeVars, queryVars, keyVars, rateVars>>

\* lines 152-163 once limited is known: 429, or schedule the log task when
\* the X-API-Key header is set and go on to call_next
AfterCheck(r, limited, how) ==
  /\ req' = [req EXCEPT ![r].limited = limited, ![r].redis = how, ![r].seen = 0,
                         ![r].pc = IF limited THEN "done" ELSE "handler",
                         ![r].response = IF limited THEN 429 ELSE 0]
  /\ logTask' = [logTask EXCEPT ![r] =
                    IF ~limited /\ OrElse(req[r].header, "") # "" THEN "pending" ELSE @]

\* lines 136-137: an exempt path goes straight to call_next
MwExempt(r) ==
  /\ req[r].pc = "mw" /\ ExemptPath(req[r].path)
  /\ req' = [req EXCEPT ![r].pc = "handler"]
  /\ UNCHANGED <<logTask, arrived, storeVars, queryVars, keyVars, rateVars>>

\* lines 149-163 without redis: _mem_rate_check and what follows, with no
\* await in between
MwMemCheck(r) ==
  /\ req[r].pc = "mw" /\ ~ExemptPath(req[r].path) /\ ~redis.on
  /\ LET res == MemRateCheck(store[ClientIdOf(r)], now)
     IN  /\ store' = [store EXCEPT ![ClientIdOf(r)] = res.hits]
         /\ allowed' = AllowedAfter(ClientIdOf(r), res.limited)
         /\ AfterCheck(r, res.limited, "none")
  /\ UNCHANGED <<arrived, now, lastCheck, redis, window, failOpen, storeVars, queryVars,
                 keyVars>>

\* lines 146-148 with redis: the middleware awaits the pipeline
MwRedisSend(r) ==
  /\ req[r].pc = "mw" /\ ~ExemptPath(req[r].path) /\ redis.on
  /\ req' = [req EXCEPT ![r].pc = "redis",
                         ![r].seen = IF TracksChecks THEN RedisCount(ClientIdOf(r)) ELSE 0]
  /\ UNCHANGED <<logTask, arrived, storeVars, queryVars, keyVars, rateVars>>

\* the pipeline runs and its reply arrives: limited = count > RATE_LIMIT
MaxRedisCount == 3
RedisReply(r) ==
  /\ req[r].pc = "redis"
  /\ RedisCount(ClientIdOf(r)) < MaxRedisCount
  /\ redis' = RedisAfterPipeline(ClientIdOf(r))
  /\ allowed' = AllowedAfter(ClientIdOf(r), RedisLimited(CountReplied(r)))
  /\ AfterCheck(r, RedisLimited(CountReplied(r)), "ok")
  /\ UNCHANGED <<arrived, now, store, lastCheck, window, failOpen, storeVars, queryVars,
                 keyVars>>

\* the round trip raises (connection lost, time-out), before or after the
\* server has run the pipeline: _redis_rate_check returns False (lines
\* 117-118) and the request goes on like any other that is not limited
RedisFails(r, applied) ==
  /\ req[r].pc = "redis"
  /\ RedisCount(ClientIdOf(r)) < MaxRedisCount
  /\ redis' = IF applied THEN RedisAfterPipeline(ClientIdOf(r)) ELSE redis
  /\ allowed' = AllowedAfter(ClientIdOf(r), RedisFailureResult)
  /\ failOpen' = IF TracksChecks /\ ~RedisFailureResult
                 THEN [failOpen EXCEPT ![ClientIdOf(r)] = @ + 1]
                 ELSE failOpen
  /\ AfterCheck(r, RedisFailureResult, "failed")
  /\ UNCHANGED <<arrived, now, store, lastCheck, window, storeVars,
                 queryVars, keyVars>>

\* the request has gone through the rate check and on to call_next
PastCheck(r) == req[r].pc \in {"handler", "update", "upsert", "done"}

\* a call_next that waited for the log task
CallNextAfterLog(r) == req[r].pc = "handler" /\ logTask[r] # "pending"

\* line 163: call_next is awaited as soon as the task has been created
CallNextReady(r) == req[r].pc = "handler"

\* call_next: require_api_key where the route depends on it; the other
\* routes answer, update goes on in a worker thread
Handler(r) ==
  /\ CallNextReady(r)
  /\ IF req[r].path = "/update" /\ RequireApiKey(r)
     THEN req' = [req EXCEPT ![r].pc = "update"]
     ELSE req' = [req EXCEPT ![r].pc = "done", ![r].response = HandlerResponse(r)]
  /\ UNCHANGED <<logTask, arrived, storeVars, queryVars, keyVars, rateVars>>

\* update is entered with the payload of the request; the steps of
\* upsert_item then run in the thread, among those of the other request
UpdateCall(r) ==
  /\ req[r].pc = "update"
  /\ Update(ProcOf(r), PayloadOf(r))
  /\ req' = [req EXCEPT ![r].pc = "upsert"]
  /\ UNCHANGED <<logTask, arrived, queryVars, keyVars, rateVars>>

\* update line 241, or the exception that left upsert_item: call_next has
\* its response and the locals of the call are gone
UpdateReturns(r) ==
  /\ req[r].pc = "upsert" /\ pc[ProcOf(r)] \in {"done", "raised"}
  /\ req' = [req EXCEPT ![r].pc = "done", ![r].response = HandlerResponse(r)]
  /\ item' = [item EXCEPT ![ProcOf(r)] = Variant("d1", 1)]
  /\ items' = [items EXCEPT ![ProcOf(r)] = <<>>]
  /\ syncItems' = [syncItems EXCEPT ![ProcOf(r)] = <<>>]
  /\ pre' = [pre EXCEPT ![ProcOf(r)] = <<>>]
  /\ UNCHANGED <<pydantic, file, damage, mirror, mirrorPre, pc, logTask, arrived,
                 queryVars, keyVars, rateVars>>

\* the task log_usage_async runs log_usage in the executor; log_usage
\* swallows every Exception
LogTaskRuns(r) ==
  /\ logTask[r] = "pending"
  /\ usage' = UsageAfterLog(req[r].header, req[r].path)
  /\ logTask' = [logTask EXCEPT ![r] = IF TimeIsBound THEN "written" ELSE "swallowed"]
  /\ UNCHANGED <<req, arrived, keys, issued, revoked, lastKeyOp, storeVars,
                 queryVars, rateVars>>

\* the response has been sent and the log task has run: the slot and its
\* thread are free
Finish(r) ==
  /\ req[r].pc = "done" /\ logTask[r] # "pending"
  /\ req' = [req EXCEPT ![r] = IdleReq]
  /\ logTask' = [logTask EXCEPT ![r] = "none"]
  /\ pc' = [pc EXCEPT ![ProcOf(r)] = "idle"]
  /\ UNCHANGED <<pydantic, arrived, file, damage, mirror, mirrorPre, item, items, syncItems,
                 pre, queryVars, keyVars, rateVars>>

(***************************************************************************)
(* Initial values of the parts a specification does not exercise           *)
(***************************************************************************)
StoreIdle ==
  /\ file = <<>> /\ damage = "none" /\ mirror = <<>> /\ mirrorPre = <<>>
  /\ pydantic \in {"1.x", "2.x"}
  /\ pc = [p \in Procs |-> "idle"]
  /\ item = [p \in Procs |-> Variant("d1", 1)]
  /\ items = [p \in Procs |-> <<>>]
  /\ syncItems = [p \in Procs |-> <<>>]
  /\ pre = [p \in Procs |-> <<>>]

QueryIdle == qn = 0 /\ qres = <<>> /\ outcome = <<>>

KeysIdle ==
  /\ keys = <<>> /\ usage = <<>> /\ issued = {} /\ revoked = {}
  /\ lastKeyOp = <<>>

RateIdle ==
  /\ now = 0 /\ store = <<>> /\ allowed = <<>> /\ lastCheck = <<>> /\ redis = <<>>
  /\ window = <<>> /\ failOpen = <<>>

HttpIdle == req = <<>> /\ logTask = <<>> /\ arrived = 0

(***************************************************************************)
(* SpecConc: two callers, one upsert_item each, every interleaving of      *)
(* their steps, on a document that holds at most one record                *)
(***************************************************************************)
InitDocs == {<<>>} \cup {<<r>> : r \in Records}

InitConc ==
  /\ file \in InitDocs /\ damage = "none"
  /\ mirror = SyncRows(<<>>, file) /\ mirrorPre = <<>>
  /\ pydantic \in {"1.x", "2.x"}
  /\ pc = [p \in Procs |-> "idle"]
  /\ item = [p \in Procs |-> Variant("d1", 1)]
  /\ items = [p \in Procs |-> <<>>]
  /\ syncItems = [p \in Procs |-> <<>>]
  /\ pre = [p \in Procs |-> <<>>]
  /\ QueryIdle /\ KeysIdle /\ RateIdle /\ HttpIdle

NextConc ==
  \E p \in Procs :
    \/ \E r \in Records : Call(p, r)
    \/ ReadJson(p)
    \/ WriteJsonOpen(p)
    \/ WriteJsonDump(p)
    \/ SyncRead(p)
    \/ SyncCommit(p)

SpecConc == InitConc /\ [][NextConc]_vars

\* C1: when two callers have upserted records with two different ids and
\* both calls have returned, query_all() returns a document that holds both
\* records.
C1_NoLostUpsert ==
  (/\ pc["p1"] = "done" /\ pc["p2"] = "done"
   /\ item["p1"].id # item["p2"].id)
    => (/\ ~ReadJsonResult.raised
        /\ InDoc(QueryAll, item["p1"]) /\ InDoc(QueryAll, item["p2"]))

(***************************************************************************)
(* SpecSeq: upsert_item calls one after the other (a caller enters only    *)
(* when no call is in progress), any records, from the empty document      *)
(***************************************************************************)
InitSeq ==
  /\ StoreIdle /\ QueryIdle /\ KeysIdle /\ RateIdle /\ HttpIdle

CallSeq(p, r) ==
  /\ \A q \in Procs : pc[q] = "idle"
  /\ Call(p, r)

NextSeq ==
  \E p \in Procs :
    \/ \E r \in Records : CallSeq(p, r)
    \/ ReadJson(p)
    \/ WriteJsonOpen(p)
    \/ WriteJsonDump(p)
    \/ SyncRead(p)
    \/ SyncCommit(p)
    \/ Return(p)

SpecSeq == InitSeq /\ [][NextSeq]_vars

IndexOfId(doc, id) == CHOOSE i \in DOMAIN doc : doc[i].id = id

\* C2: the document never holds two records with one id, and when the
\* upsert of a valid record R has ended (update has handed R to upsert_item
\* and the call is over), query_all() returns a document that holds exactly
\* one record with R's id, and it equals R.
C2_OnePerId ==
  /\ NoDuplicateIds(QueryAll)
  /\ \A p \in Procs : pc[p] \in {"done", "raised"} =>
        /\ ~ReadJsonResult.raised
        /\ Cardinality({i \in DOMAIN QueryAll : QueryAll[i].id = item[p].id}) = 1
        /\ \E i \in DOMAIN QueryAll : QueryAll[i] = item[p]

\* C3: when the upsert of a valid record R has ended, query_all() returns a
\* document that, with R's id present before the call, has the same length,
\* R at the index the old record had and every other index unchanged; with
\* R's id absent before, it is the old document with R appended.
C3_ReplaceInPlaceOrAppend ==
  \A p \in Procs : pc[p] \in {"done", "raised"} =>
    /\ ~ReadJsonResult.raised
    /\ IF HasId(pre[p], item[p].id)
       THEN /\ Len(QueryAll) = Len(pre[p])
            /\ QueryAll[IndexOfId(pre[p], item[p].id)] = item[p]
            /\ \A j \in DOMAIN QueryAll :
                 j # IndexOfId(pre[p], item[p].id) => QueryAll[j] = pre[p][j]
       ELSE /\ Len(QueryAll) = Len(pre[p]) + 1
            /\ QueryAll[Len(QueryAll)] = item[p]
            /\ \A j \in DOMAIN pre[p] : QueryAll[j] = pre[p][j]

\* keyword occurs in the name, the description or one of the tags of r
KeywordIn(r, kw) ==
  \/ Contains(r.name, kw)
  \/ ~r.description.isNull /\ Contains(r.description.v, kw)
  \/ ~r.tags.isNull /\ \E i \in DOMAIN r.tags.v : Contains(r.tags.v[i], kw)

SearchAll(kw) == SearchSqlite(mirror, kw, Len(mirror))

\* C4: when upsert_item(R) has returned, a search for any keyword that
\* occurs in R's name, description or tags returns R, and no search returns
\* another version of the record with R's id.
C4_ReadYourWrites ==
  \A p \in Procs : pc[p] = "done" =>
    \A kw \in Keywords :
      LET res == SearchAll(kw)
      IN  /\ KeywordIn(item[p], kw) => \E i \in DOMAIN res : res[i] = item[p]
          /\ \A i \in DOMAIN res : res[i].id = item[p].id => res[i] = item[p]

\* C7: when upsert_item(R) has returned, every record with R's id that a
\* search returns has R's columns and R's tags: the same elements in the
\* same order, an empty list as an empty list, None as None.
C7_SequenceFieldsRoundTrip ==
  \A p \in Procs : pc[p] = "done" =>
    \A kw \in Keywords :
      LET res == SearchAll(kw)
      IN  \A i \in DOMAIN res : res[i].id = item[p].id =>
            /\ res[i].columns = item[p].columns
            /\ res[i].tags = item[p].tags

\* a record with two tags, an empty columns list and another record before
\* it has been upserted, and the search for "a" returns it
C7_Witness ==
  \E p \in Procs :
    /\ pc[p] = "done"
    /\ item[p].tags = Some(<< <<"a">>, <<"b">> >>)
    /\ item[p].columns = Some(<<>>)
    /\ \E i \in DOMAIN SearchAll(<<"a">>) :
         i > 1 /\ SearchAll(<<"a">>)[i].id = item[p].id

(***************************************************************************)
(* SpecKeys: any sequence of key registry and usage log calls              *)
(***************************************************************************)
InitKeys ==
  /\ keys = [k \in Tokens |-> NoKey]
  /\ usage = <<>> /\ issued = {} /\ revoked = {}
  /\ lastKeyOp = [op |-> "none", key |-> NoToken, ok |-> TRUE]
  /\ now = 0 /\ store = <<>> /\ allowed = <<>> /\ lastCheck = <<>> /\ redis = <<>>
  /\ window = <<>> /\ failOpen = <<>>
  /\ StoreIdle /\ QueryIdle /\ HttpIdle

NextKeys ==
  \/ \E k \in Tokens, l \in Labels, q \in Quotas : CreateApiKey(k, l, q)
  \/ \E key \in PresentedKeys : ValidateKey(key)
  \/ \E key \in PresentedKeys : DeactivateApiKey(key)
  \/ \E key \in Tokens, e \in Endpoints : LogUsage(key, e)
  \/ TickKeys

SpecKeys == InitKeys /\ [][NextKeys]_vars

\* C5: validate_api_key(t) is true exactly for the tokens create_api_key has
\* returned and deactivate_api_key has not been called on since (the sets
\* issued and revoked only grow, so a revoked token stays invalid whatever
\* is called next); it is false for the empty and the absent token; every
\* validate call returned just that; and the row of an issued token is
\* never deleted.
C5_KeyLifecycle ==
  /\ \A t \in Tokens : ValidateApiKey(t) <=> (t \in issued /\ t \notin revoked)
  /\ ~ValidateApiKey("") /\ ~ValidateApiKey(NoToken)
  /\ \A t \in issued : keys[t].present
  /\ lastKeyOp.op = "validate" =>
        (lastKeyOp.ok <=> (lastKeyOp.key \in issued /\ lastKeyOp.key \notin revoked))
  /\ (lastKeyOp.op = "create" /\ lastKeyOp.ok) => ValidateApiKey(lastKeyOp.key)

\* a token was issued and later deactivated, and validate_api_key has just
\* returned false for it
C5_Witness ==
  \E t \in Tokens :
    /\ t \in issued /\ t \in revoked
    /\ keys[t].created_at < now
    /\ lastKeyOp = [op |-> "validate", key |-> t, ok |-> FALSE]
    /\ \E u \in Tokens \ {t} : ValidateApiKey(u)

(***************************************************************************)
(* SpecRate: the in-memory limiter under any sequence of checks by two     *)
(* clients and a clock that never goes back                                *)
(***************************************************************************)
NoCheck == [client |-> "", at |-> 0, limited |-> FALSE,
            allowedBefore |-> <<>>, hitsBefore |-> <<>>]

InitRate ==
  /\ now = 0
  /\ store = [c \in ClientIds |-> <<>>]
  /\ allowed = [c \in ClientIds |-> <<>>]
  /\ lastCheck = NoCheck
  /\ redis = <<>> /\ window = <<>> /\ failOpen = <<>>
  /\ StoreIdle /\ QueryIdle /\ KeysIdle /\ HttpIdle

NextRate ==
  \/ \E c \in ClientIds : RateCheck(c)
  \/ TickRate

SpecRate == InitRate /\ [][NextRate]_vars

\* how many of the times in the sequence h lie in (t - RATE_WINDOW, t]
InWindow(h, t) == Cardinality({i \in DOMAIN h : h[i] > t - RATE_WINDOW /\ h[i] <= t})

\* C6: a check returns limited exactly when RATE_LIMIT checks of the same
\* client were allowed at times in (now - RATE_WINDOW, now]; a limited
\* check appends no timestamp and an allowed one appends now; a check made
\* RATE_WINDOW or more after the oldest timestamp the client's list held is
\* allowed; and of any RATE_LIMIT + 1 allowed checks of one client the last
\* is at least RATE_WINDOW after the first.
C6_SlidingWindow ==
  /\ lastCheck.client \in ClientIds =>
        /\ lastCheck.limited <=>
              InWindow(lastCheck.allowedBefore, lastCheck.at) = RATE_LIMIT
        /\ InWindow(lastCheck.allowedBefore, lastCheck.at) <= RATE_LIMIT
        /\ lastCheck.limited =>
              /\ store[lastCheck.client] = Purge(lastCheck.hitsBefore, lastCheck.at)
              /\ allowed[lastCheck.client] = lastCheck.allowedBefore
        /\ ~lastCheck.limited =>
              /\ store[lastCheck.client] =
                    Append(Purge(lastCheck.hitsBefore, lastCheck.at), lastCheck.at)
              /\ allowed[lastCheck.client] = Append(lastCheck.allowedBefore, lastCheck.at)
        /\ (/\ lastCheck.hitsBefore # <<>>
             /\ lastCheck.at >= lastCheck.hitsBefore[1] + RATE_WINDOW)
              => ~lastCheck.limited
  /\ \A c \in ClientIds : \A i, j \in DOMAIN allowed[c] :
        j >= i + RATE_LIMIT => allowed[c][j] >= allowed[c][i] + RATE_WINDOW

\* a client was allowed RATE_LIMIT checks, then limited, and its check
\* RATE_WINDOW after the first of them has just been allowed
C6_Witness ==
  /\ lastCheck.client \in ClientIds
  /\ ~lastCheck.limited
  /\ Len(lastCheck.hitsBefore) = RATE_LIMIT
  /\ lastCheck.at = lastCheck.hitsBefore[1] + RATE_WINDOW
  /\ Len(allowed[lastCheck.client]) > RATE_LIMIT

(***************************************************************************)
(* SpecLatest: query_latest(n) on every document of at most MaxDocLen      *)
(* records whose updated is None, "" or one of three timestamps            *)
(***************************************************************************)
MaxDocLen == 3
MaxLimit == 4
UpdatedValues == {NULL, Some(<<>>), Some(<<"1">>), Some(<<"1", "0">>), Some(<<"2">>)}
LatestRecords ==
  {MkRec(id, <<"a">>, u, NoRows, NULL, NULL, Some(<<>>)) :
     id \in {"d1", "d2", "d3", "d4"}, u \in UpdatedValues}
LatestDocs ==
  {d \in UNION {[1..k -> LatestRecords] : k \in 0..MaxDocLen} : NoDuplicateIds(d)}

InitLatest ==
  /\ file \in LatestDocs /\ damage = "none"
  /\ mirror = <<>> /\ mirrorPre = <<>>
  /\ pydantic \in {"1.x", "2.x"}
  /\ pc = [p \in Procs |-> "idle"]
  /\ item = [p \in Procs |-> Variant("d1", 1)]
  /\ items = [p \in Procs |-> <<>>]
  /\ syncItems = [p \in Procs |-> <<>>]
  /\ pre = [p \in Procs |-> file]
  /\ QueryIdle /\ KeysIdle /\ RateIdle /\ HttpIdle

\* query_latest(n): read_json, sort, slice
QueryLatestCall(n) ==
  /\ qn' = n
  /\ qres' = IF QueryLatestRaises THEN qres ELSE QueryLatest(ReadJsonResult.records, n)
  /\ outcome' = [op |-> "query_latest", raised |-> QueryLatestRaises,
                  shape |-> "list", found |-> damage,
                  size |-> IF QueryLatestRaises THEN 0 ELSE Len(qres')]
  /\ UNCHANGED <<storeVars, keyVars, rateVars, httpVars>>

\* query_all(): whatever read_json returns
QueryAllCall ==
  /\ outcome' = [op |-> "query_all", raised |-> ReadJsonResult.raised,
                  shape |-> ReadJsonResult.shape, found |-> damage,
                  size |-> Len(ReadJsonResult.records)]
  /\ UNCHANGED <<qn, qres, storeVars, keyVars, rateVars, httpVars>>

NextLatest == \E n \in 1..MaxLimit : QueryLatestCall(n)

SpecLatest == InitLatest /\ [][NextLatest]_vars

\* r comes before q in the order of query_latest: a greater updated, or an
\* equal one (None and "" both count as "") and an earlier place in the document
Before(r, q) ==
  \/ LexLess(SortKey(q), SortKey(r))
  \/ SortKey(q) = SortKey(r) /\ IndexOfId(file, r.id) < IndexOfId(file, q.id)

\* C8: query_latest(n), n >= 1, returns min(n, size) records of the
\* document, each once; they are in descending order of updated, records
\* without an updated value (None, or the empty string the code reads it
\* as) after all others, equal values in document order; every record left
\* out comes after every record returned in that order; and the document
\* is as it was.
C8_QueryLatest ==
  qn >= 1 =>
    /\ Len(qres) = Min(qn, Len(file))
    /\ \A i \in DOMAIN qres : InDoc(file, qres[i])
    /\ \A i, j \in DOMAIN qres : i < j =>
          /\ Before(qres[i], qres[j])
          /\ ~LexLess(SortKey(qres[i]), SortKey(qres[j]))
          /\ SortKey(qres[i]) = <<>> => SortKey(qres[j]) = <<>>
    /\ \A k \in DOMAIN file : \A i \in DOMAIN qres :
          (\A j \in DOMAIN qres : qres[j] # file[k]) => Before(qres[i], file[k])
    /\ file = pre["p1"]

\* query_latest(2) on three records: the first has no updated value, the
\* other two share one; both are returned, in document order
C8_Witness ==
  /\ qn = 2 /\ Len(file) = 3 /\ Len(qres) = 2
  /\ file[1].updated = NULL
  /\ file[2].updated = Some(<<"1", "0">>) /\ file[3].updated = Some(<<"1", "0">>)
  /\ qres = <<file[2], file[3]>>

(***************************************************************************)
(* SpecHttp: MaxArrivals requests, two at a time, through                  *)
(* rate_limit_middleware and their routes, with either backend, within one *)
(* second; key k1 is active, key k2 has been deactivated; the shared       *)
(* counters are new or stand at the limit from requests served before      *)
(***************************************************************************)
MaxArrivals == 2

ArriveHttp(r, s) ==
  /\ arrived < MaxArrivals
  /\ Arrive(r, s.path, s.header, s.query)

InitHttp ==
  /\ req = [r \in Reqs |-> IdleReq]
  /\ logTask = [r \in Reqs |-> "none"]
  /\ arrived = 0
  /\ now = 0
  /\ store = [c \in HttpClients |-> <<>>]
  /\ allowed = <<>> /\ lastCheck = <<>> /\ window = <<>> /\ failOpen = <<>>
  /\ redis \in {[on |-> FALSE, count |-> [c \in HttpClients |-> 0],
                  expires |-> [c \in HttpClients |-> 0]]}
               \cup {[on |-> TRUE, count |-> [c \in HttpClients |-> n],
                      expires |-> [c \in HttpClients |->
                                     IF n > 0 THEN RATE_WINDOW ELSE 0]] :
                        n \in {0, RATE_LIMIT}}
  /\ keys = [k \in Tokens |->
               [NoKey EXCEPT !.present = TRUE, !.active = IF k = "k1" THEN 1 ELSE 0]]
  /\ usage = <<>> /\ issued = Tokens /\ revoked = {"k2"}
  /\ lastKeyOp = [op |-> "none", key |-> NoToken, ok |-> TRUE]
  /\ StoreIdle /\ QueryIdle

NextHttp ==
  \/ \E r \in Reqs, s \in Shapes : ArriveHttp(r, s)
  \/ \E r \in Reqs : MwExempt(r)
  \/ \E r \in Reqs : MwMemCheck(r)
  \/ \E r \in Reqs : MwRedisSend(r)
  \/ \E r \in Reqs : RedisReply(r)
  \/ \E r \in Reqs, applied \in BOOLEAN : RedisFails(r, applied)
  \/ \E r \in Reqs : Handler(r)
  \/ \E r \in Reqs : UpdateCall(r)
  \/ \E p \in Procs : ReadJson(p)
  \/ \E p \in Procs : WriteJsonOpen(p)
  \/ \E p \in Procs : WriteJsonDump(p)
  \/ \E p \in Procs : SyncRead(p)
  \/ \E p \in Procs : SyncCommit(p)
  \/ \E r \in Reqs : UpdateReturns(r)
  \/ \E r \in Reqs : LogTaskRuns(r)
  \/ \E r \in Reqs : Finish(r)

SpecHttp == InitHttp /\ [][NextHttp]_vars

\* C9: the response of a request is 429 when it was limited and the
\* handler's answer otherwise, whatever has become of its log task (not
\* created, not yet run, or run with its failure swallowed); and call_next
\* can run as soon as the middleware has reached it, the log task pending or not.
C9_LogNeverAffectsResponse ==
  \A r \in Reqs :
    /\ req[r].pc = "done" =>
          req[r].response = IF req[r].limited THEN 429 ELSE HandlerResponse(r)
    /\ req[r].pc = "handler" => ENABLED Handler(r)
    /\ logTask[r] \in {"none", "pending", "swallowed", "written"}

\* two requests with the same key and path have both been answered 200;
\* the log write of one has failed, that of the other has not run yet
C9_Witness ==
  \E r1, r2 \in Reqs :
    /\ req[r1].pc = "done" /\ req[r2].pc = "done"
    /\ req[r1].path = "/update" /\ req[r2].path = "/update"
    /\ req[r1].header = "k1" /\ req[r2].header = "k1"
    /\ req[r1].response = 200 /\ req[r2].response = 200
    /\ logTask[r1] = "swallowed" /\ logTask[r2] = "pending"
    /\ usage = <<>>

\* C10: a request whose round trip to the shared counter failed is not
\* limited: it goes on to call_next and its response is the handler's,
\* neither 429 nor an error of the limiter.
C10_RedisFailsOpen ==
  \A r \in Reqs : req[r].redis = "failed" =>
    /\ ~req[r].limited
    /\ PastCheck(r)
    /\ req[r].pc = "done" => req[r].response = HandlerResponse(r)

\* the counter of a client is over the limit, the round trip of its next
\* request failed, and the request has been answered 200
C10_Witness ==
  \E r \in Reqs :
    /\ req[r].redis = "failed" /\ req[r].pc = "done" /\ req[r].response = 200
    /\ RedisCount(ClientIdOf(r)) > RATE_LIMIT

(***************************************************************************)
(* SpecCorrupt: query_all, query_latest and upsert_item on a document      *)
(* whose file is sound or damaged in one of the ways of DamageKinds        *)
(***************************************************************************)
NoOutcome == [op |-> "none", raised |-> FALSE, shape |-> "list", found |-> "none",
              size |-> 0]

InitCorrupt ==
  /\ file \in InitDocs
  /\ damage \in DamageKinds \cup {"none"}
  /\ mirror = SyncRows(<<>>, file) /\ mirrorPre = <<>>
  /\ pydantic \in {"1.x", "2.x"}
  /\ pc = [p \in Procs |-> "idle"]
  /\ item = [p \in Procs |-> Variant("d1", 1)]
  /\ items = [p \in Procs |-> <<>>]
  /\ syncItems = [p \in Procs |-> <<>>]
  /\ pre = [p \in Procs |-> <<>>]
  /\ qn = 0 /\ qres = <<>> /\ outcome = NoOutcome
  /\ KeysIdle /\ RateIdle /\ HttpIdle

NextCorrupt ==
  \/ \E p \in Procs, r \in Records : CallSeq(p, r)
  \/ \E p \in Procs : ReadJson(p)
  \/ \E p \in Procs : WriteJsonOpen(p)
  \/ \E p \in Procs : WriteJsonDump(p)
  \/ \E p \in Procs : SyncRead(p)
  \/ \E p \in Procs : SyncCommit(p)
  \/ QueryAllCall
  \/ \E n \in 1..MaxLimit : QueryLatestCall(n)

SpecCorrupt == InitCorrupt /\ [][NextCorrupt]_vars

\* C11: every query_all and query_latest call that found datasets.json
\* damaged ended with an error, never with a result; and on a document
\* damaged in one of the ways of DamageKinds upsert_item ends with an error
\* before it writes, and the file and the mirror are as they were.
C11_CorruptionPropagates ==
  /\ (outcome.op \in {"query_all", "query_latest"} /\ outcome.found # "none")
        => outcome.raised
  /\ damage \in DamageKinds =>
        \A p \in Procs :
          /\ pc[p] \in {"idle", "read", "raised"}
          /\ pc[p] = "raised" => (file = pre[p] /\ mirror = SyncRows(<<>>, file))

\* C12: under SpecConc, when both callers' upsert_item calls have returned,
\* the document can be read and every row of the mirror is the row of the
\* record with the same id in it: no row for an id the document lacks, no
\* row with old values.
C12_MirrorMatchesDocument ==
  (\A p \in Procs : pc[p] = "done") =>
    /\ ~ReadJsonResult.raised
    /\ \A i \in DOMAIN mirror :
          \E j \in DOMAIN file : file[j].id = mirror[i].id /\ mirror[i] = ToRow(file[j])

(***************************************************************************)
(* SpecRedis: _redis_rate_check under any sequence of calls by two clients *)
(* and a clock that never goes back                                        *)
(***************************************************************************)
MaxWindowCalls == 5

\* the window of the client's counter: it starts with the increment that
\* creates the counter and lasts as long as the counter does
WindowAfterCall(c) ==
  IF RedisCount(c) = 0
  THEN [start |-> now, n |-> 1]
  ELSE [window[c] EXCEPT !.n = @ + 1]

\* one call of _redis_rate_check for client c: the pipeline runs on the
\* server and the reply is compared with RATE_LIMIT (how = "ok"), or the
\* round trip raises before ("failed") or after ("lost") the server ran it
RedisRateCheck(c, how) ==
  /\ RedisCount(c) < MaxWindowCalls
  /\ redis' = IF how = "failed" THEN redis ELSE RedisAfterPipeline(c)
  /\ window' = IF how = "failed" THEN window
                ELSE [window EXCEPT ![c] = WindowAfterCall(c)]
  /\ lastCheck' = [client |-> c, at |-> now, how |-> how,
                    limited |-> IF how = "ok" THEN RedisLimited(RedisCount(c) + 1)
                                ELSE RedisFailureResult,
                    countBefore |-> RedisCount(c)]
  /\ UNCHANGED <<now, store, allowed, failOpen>>
  /\ UNCHANGED <<storeVars, queryVars, keyVars, httpVars>>

InitRedis ==
  /\ now = 0
  /\ store = [c \in ClientIds |-> <<>>]
  /\ allowed = [c \in ClientIds |-> <<>>]
  /\ lastCheck = [client |-> "", at |-> 0, how |-> "ok", limited |-> FALSE,
                   countBefore |-> 0]
  /\ redis = [on |-> TRUE, count |-> [c \in ClientIds |-> 0],
               expires |-> [c \in ClientIds |-> 0]]
  /\ window = [c \in ClientIds |-> [start |-> 0, n |-> 0]]
  /\ failOpen = <<>>
  /\ StoreIdle /\ QueryIdle /\ KeysIdle /\ HttpIdle

NextRedis ==
  \/ \E c \in ClientIds, how \in {"ok", "failed", "lost"} : RedisRateCheck(c, how)
  \/ TickRate

SpecRedis == InitRedis /\ [][NextRedis]_vars

\* C13: a call of the shared-counter limiter that is limited comes no more
\* than RATE_WINDOW after the first increment of its counter's window: a
\* call made later than that is not limited, whatever calls came in between.
C13_FixedWindow ==
  (lastCheck.client \in ClientIds /\ lastCheck.limited) =>
    /\ window[lastCheck.client].n > RATE_LIMIT
    /\ lastCheck.at <= window[lastCheck.client].start + RATE_WINDOW

\* C14: under SpecKeys, when the last call was log_usage(key, endpoint), the
\* usage log is not empty and its last entry is that call's: its key, and
\* the time of the call in whole seconds.
C14_LogUsageAppends ==
  lastKeyOp.op = "log" =>
    /\ usage # <<>>
    /\ usage[Len(usage)].api_key = lastKeyOp.key
    /\ usage[Len(usage)].ts <= now

(***************************************************************************)
(* SpecRace: MaxRaceArrivals requests, two at a time, to the public search, *)
(* with and without a key in the header, through either backend within one *)
(* second, with the history of the checks                                  *)
(***************************************************************************)
RaceShapes == {Shape("/search", NoToken, NoToken), Shape("/search", "k1", NoToken)}
MaxRaceArrivals == 3

ArriveRace(r, s) ==
  /\ arrived < MaxRaceArrivals
  /\ Arrive(r, s.path, s.header, s.query)

InitRace ==
  /\ req = [r \in Reqs |-> IdleReq]
  /\ logTask = [r \in Reqs |-> "none"]
  /\ arrived = 0
  /\ now = 0
  /\ store = [c \in HttpClients |-> <<>>]
  /\ allowed = [c \in HttpClients |-> <<>>]
  /\ lastCheck = <<>> /\ window = <<>>
  /\ failOpen = [c \in HttpClients |-> 0]
  /\ redis \in {[on |-> b, count |-> [c \in HttpClients |-> 0],
                  expires |-> [c \in HttpClients |-> 0]] : b \in BOOLEAN}
  /\ keys = [k \in Tokens |->
               [NoKey EXCEPT !.present = TRUE, !.active = IF k = "k1" THEN 1 ELSE 0]]
  /\ usage = <<>> /\ issued = Tokens /\ revoked = {"k2"}
  /\ lastKeyOp = [op |-> "none", key |-> NoToken, ok |-> TRUE]
  /\ StoreIdle /\ QueryIdle

NextRace ==
  \/ \E r \in Reqs, s \in RaceShapes : ArriveRace(r, s)
  \/ \E r \in Reqs : MwMemCheck(r)
  \/ \E r \in Reqs : MwRedisSend(r)
  \/ \E r \in Reqs : RedisReply(r)
  \/ \E r \in Reqs, applied \in BOOLEAN : RedisFails(r, applied)
  \/ \E r \in Reqs : Handler(r)
  \/ \E r \in Reqs : LogTaskRuns(r)
  \/ \E r \in Reqs : Finish(r)

SpecRace == InitRace /\ [][NextRace]_vars

\* C15 as stated: under SpecRace, where all requests come within one
\* window, no client has more than RATE_LIMIT checks that said not limited,
\* under either backend and however the requests of the client overlap.
C15_AtomicPerClient ==
  \A c \in HttpClients : Len(allowed[c]) <= RATE_LIMIT

\* C15: under SpecRace, where all requests come within one window, no
\* client has more than RATE_LIMIT checks that said not limited on the
\* answer of the limiter's state (the in-memory list, or the reply of the
\* shared counter), however the requests of the client overlap; with the
\* in-memory backend every check that said not limited has left one
\* timestamp in the client's list, with the shared counter every answered
\* one has made one increment.  The checks whose round trip to the shared
\* counter raised say not limited on top of these.
C15_AtomicAmongAnswered ==
  \A c \in HttpClients :
    /\ Len(allowed[c]) - failOpen[c] <= RATE_LIMIT
    /\ ~redis.on => (store[c] = allowed[c] /\ failOpen[c] = 0)
    /\ redis.on => Len(allowed[c]) - failOpen[c] <= RedisCount(c)

\* a request sent its pipeline when the shared counter of its client stood
\* one below the limit; while it waits, another request of the client has
\* been allowed with the last count the limit admits
C15_Witness ==
  /\ redis.on
  /\ \E r1, r2 \in Reqs :
        /\ r1 # r2 /\ ClientIdOf(r1) = ClientIdOf(r2)
        /\ req[r1].pc = "handler" /\ req[r1].redis = "ok" /\ ~req[r1].limited
        /\ req[r2].pc = "redis" /\ req[r2].seen = RATE_LIMIT - 1
        /\ RedisCount(ClientIdOf(r2)) = RATE_LIMIT
        /\ Len(allowed[ClientIdOf(r1)]) - failOpen[ClientIdOf(r1)] = RATE_LIMIT

\* the identity the rate limit is said to count a request against: the key
\* it presents, in the header or the api_key parameter, when
\* validate_api_key accepts it, and the host it comes from otherwise
CredentialOrOrigin(r) ==
  IF RequireApiKey(r) THEN OrElse(req[r].header, req[r].query) ELSE Host

\* C16: under SpecHttp, every request that has gone through the rate check
\* was counted against its key when it presents a valid one and against
\* its host otherwise; with the in-memory backend the list of that
\* identity holds the timestamps of the window.
C16_ClientIdentity ==
  \A r \in Reqs :
    (PastCheck(r) /\ ~ExemptPath(req[r].path)) =>
      /\ ClientIdOf(r) = CredentialOrOrigin(r)
      /\ ~redis.on => store[CredentialOrOrigin(r)] # <<>>

\* C17: under SpecHttp, a request that has gone through the middleware has
\* a usage log write scheduled exactly when it was not rate-limited and
\* presents, in the header or the api_key parameter, a key that
\* validate_api_key accepts.
C17_LogForAuthenticated ==
  \A r \in Reqs :
    PastCheck(r) =>
      (logTask[r] # "none" <=> (~req[r].limited /\ RequireApiKey(r)))

\* k occurs in t as a contiguous run of characters, up to the case of ASCII letters
ContainsFolded(t, k) ==
  \E i \in 0..(Len(t) - Len(k)) :
    \A j \in 1..Len(k) : Fold(t[i + j]) = Fold(k[j])

\* the keyword occurs literally in the name, the description or the
\* serialized tags of a mirror row
RowContains(row, kw) ==
  \/ ~row.name.isNull /\ ContainsFolded(row.name.v, kw)
  \/ ~row.description.isNull /\ ContainsFolded(row.description.v, kw)
  \/ ~row.tags.isNull /\ ContainsFolded(row.tags.v, kw)

\* C18: under SpecSeq, for every keyword and every limit >= 1,
\* search_sqlite returns at most limit records, and each of them is the
\* record of a mirror row whose name, description or serialized tags hold
\* the keyword as a literal substring (the case of letters aside); so a
\* keyword that no row holds returns the empty list.
C18_SearchLiteralSubstring ==
  \A kw \in Keywords : \A n \in 1..MaxLimit :
    LET res == SearchSqlite(mirror, kw, n)
    IN  /\ Len(res) <= n
        /\ \A i \in DOMAIN res :
              \E k \in DOMAIN mirror :
                /\ mirror[k].id = res[i].id
                /\ RowContains(mirror[k], kw)

(***************************************************************************)
(* SpecSync: sync_json_to_sqlite as startup_event calls it, once or again, *)
(* on a document of at most two records and a mirror left by an earlier    *)
(* document                                                                *)
(***************************************************************************)
SyncIds == {"d1", "d2"}
MaxSyncLen == 2
SyncDocs ==
  {d \in UNION {[1..k -> Records] : k \in 0..MaxSyncLen} : NoDuplicateIds(d)}

\* the key table the sync finds: one active key
SyncKeys ==
  [k \in Tokens |->
     IF k = "k1" THEN [present |-> TRUE, label |-> "", created_at |-> 0, active |-> 1,
                       quota |-> NoRows]
     ELSE NoKey]

InitSync ==
  /\ file \in {d \in SyncDocs : \A i \in DOMAIN d : d[i].id \in SyncIds}
  /\ damage = "none"
  /\ mirror \in {SyncRows(<<>>, d) : d \in SyncDocs}
  /\ mirrorPre = [runs |-> 0, rows |-> <<>>]
  /\ pydantic \in {"1.x", "2.x"}
  /\ pc = [p \in Procs |-> "idle"]
  /\ item = [p \in Procs |-> Variant("d1", 1)]
  /\ items = [p \in Procs |-> <<>>]
  /\ syncItems = [p \in Procs |-> <<>>]
  /\ pre = [p \in Procs |-> file]
  /\ keys = SyncKeys /\ usage = <<>> /\ issued = {"k1"} /\ revoked = {}
  /\ lastKeyOp = [op |-> "none", key |-> NoToken, ok |-> TRUE]
  /\ QueryIdle /\ RateIdle /\ HttpIdle

\* startup_event line 52: sync_json_to_sqlite(), with no request in progress
StartupSync ==
  /\ mirrorPre.runs < 2
  /\ ~ReadJsonResult.raised /\ ReadJsonResult.shape = "list"
  /\ mirror' = SyncRows(mirror, ReadJsonResult.records)
  /\ mirrorPre' = [runs |-> mirrorPre.runs + 1, rows |-> mirror]
  /\ UNCHANGED <<pydantic, file, damage, pc, item, items, syncItems, pre>>
  /\ StoreOnly

NextSync == StartupSync

SpecSync == InitSync /\ [][NextSync]_vars

\* C19: after a sync, every row the mirror had is still there, in its
\* place and with its id; a row whose id the document lacks is as it was;
\* a row whose id the document holds is the row of that record; every new
\* row is the row of a record of the document and every record has a row;
\* the document, the key table and the usage log are as they were; a
\* second sync right after the first changes nothing.
C19_SyncOnlyUpserts ==
  mirrorPre.runs >= 1 =>
    /\ Len(mirror) >= Len(mirrorPre.rows)
    /\ \A i \in DOMAIN mirrorPre.rows :
          /\ mirror[i].id = mirrorPre.rows[i].id
          /\ ~HasId(file, mirror[i].id) => mirror[i] = mirrorPre.rows[i]
    /\ \A i \in DOMAIN mirror :
          /\ HasId(file, mirror[i].id) =>
                mirror[i] = ToRow(file[IndexOfId(file, mirror[i].id)])
          /\ i > Len(mirrorPre.rows) => HasId(file, mirror[i].id)
    /\ \A j \in DOMAIN file : \E i \in DOMAIN mirror : mirror[i].id = file[j].id
    /\ file = pre["p1"] /\ keys = SyncKeys /\ usage = <<>>
    /\ SyncRows(mirror, file) = mirror
    /\ mirrorPre.runs = 2 => mirror = mirrorPre.rows

\* one sync has run on a mirror of two rows: the row of an id the document
\* lacks is untouched, the other row has been overwritten with new values,
\* and a third row has been inserted
C19_Witness ==
  /\ mirrorPre.runs = 1
  /\ Len(mirrorPre.rows) = 2 /\ Len(mirror) = 3
  /\ \E i, j \in DOMAIN mirrorPre.rows :
        /\ ~HasId(file, mirror[i].id) /\ mirror[i] = mirrorPre.rows[i]
        /\ HasId(file, mirror[j].id) /\ mirror[j] # mirrorPre.rows[j]

\* C20: under SpecKeys, a step that ends with deactivate_api_key(t) as the
\* last call leaves the row of every other token as it was; it creates no
\* row for t and changes nothing of t's row but active, which is 0 when
\* the row exists; the usage log and the set of issued tokens are as they
\* were; and deactivating t once more would change nothing.
C20_DeactivateIdempotent ==
  [][\A t \in PresentedKeys :
       (lastKeyOp'.op = "deactivate" /\ lastKeyOp'.key = t) =>
         /\ \A k \in Tokens \ {t} : keys'[k] = keys[k]
         /\ t \in Tokens =>
               /\ keys'[t] = [keys[t] EXCEPT !.active = keys'[t].active]
               /\ keys'[t].active = 0
               /\ ~keys[t].present => keys'[t] = NoKey
         /\ usage' = usage /\ issued' = issued
         /\ (KeysAfterDeactivate(t))' = keys']_vars

\* deactivate_api_key has just been called on a token that was never
\* issued and has no row, after the other token, issued with a label and
\* a quota, had been deactivated and kept both
C20_Witness ==
  \E t, u \in Tokens :
    /\ lastKeyOp = [op |-> "deactivate", key |-> t, ok |-> TRUE]
    /\ t \notin issued /\ ~keys[t].present
    /\ u \in revoked /\ keys[u].present /\ keys[u].active = 0
    /\ keys[u].label = "x" /\ keys[u].quota = Some(5)

====
